---------------------------- MODULE Spec2Model ----------------------------
(***************************************************************************)
(* Order / stock / payment reconciliation core of the Discord order bot.   *)
(*                                                                         *)
(* The storage layer (database.py) and the gateway parser                  *)
(* (payment_gateway.py) are collaborators of the modelled code: their      *)
(* primitives are modelled from their documented contracts, one atomic     *)
(* step per call.  webhook_server.py and order_manager.py are modelled     *)
(* statement by statement, one action per storage call, so that calls of   *)
(* different handlers interleave where the program lets them.              *)
(***************************************************************************)
EXTENDS Integers, Sequences, FiniteSets, TLC

(***************************************************************************)
(* Bounds of the model.                                                    *)
(***************************************************************************)
MaxDeliveries == 3      \* webhook requests received in one behaviour
MaxAmount == 2          \* largest gross_amount of a top-up, in currency units
MaxBalance == 3         \* largest opening balance of the account
MaxOrders == 2          \* rows of the orders table
MaxStock == 2           \* rows of the stock table
BulkQuantity == 2       \* codes of the larger package (stands for 5, 10, 25, 50)
UnitPrice == 1          \* price of the package of one code, in currency units
BulkPrice == 2          \* price of the larger package
MaxSweep == 2           \* largest max_orders of process_pending_orders
MaxCalls == 4           \* order_manager calls started in one behaviour
MaxAttempts == 3        \* largest max_attempts passed to deliver_with_retry
MaxRetryCalls == 2      \* deliver_with_retry calls started in one behaviour
MaxCodes == 2           \* rows add_single_code inserts in one behaviour
SweepMaxOrders == 1     \* max_orders of the periodic sweep (stands for 5)

(***************************************************************************)
(* Identifiers.  An order_id is kept as the list of its '-'-separated      *)
(* parts, which is what handle_payment_success works on.                   *)
(***************************************************************************)
Users == {1}

TopupIds == { <<"TOPUP", "1", "t1">>, <<"TOPUP", "1", "t2">> }

\* an order payment, an id with too few parts, an id with a non-integer user
OtherIds == { <<"ORDER", "1", "t3">>, <<"TOPUP", "1">>, <<"TOPUP", "abc", "t4">> }

WebhookIds == TopupIds \cup OtherIds

WebhookThreads == {1, 2}

TopupStatus == {"none", "pending", "success", "failed"}

\* int(parts[1]): defined on the decimal strings only
IntOf == ("1" :> 1)

OrderIds == 1..MaxOrders

StockIds == 1..MaxStock

Creators == {1, 2}              \* concurrent create_new_order calls

Callers == {"direct", "sweep"}  \* who runs process_order: a caller, the sweep

\* config.PACKAGE_CONFIG, scaled: two packages
PACKAGE_CONFIG ==
    ("1_code" :> [quantity |-> 1, price |-> UnitPrice])
    @@ ("5_codes" :> [quantity |-> BulkQuantity, price |-> BulkPrice])

\* config.get_package_info(package_key): PACKAGE_CONFIG.get, None for other keys
PackageKeys == DOMAIN PACKAGE_CONFIG \cup {"no_such_package"}

MAX_CODES_PER_ORDER == 50

AUTO_DELIVERY_ENABLED == TRUE

ENABLE_ORDER_CANCELLATION == TRUE

ENABLE_REFUND == TRUE

PaymentMethods == {"balance"}

VARIABLES
    balance,        \* users.balance, by user id
    topups,         \* topups.status by order_id ("none": no row)
    amountOf,       \* the gross_amount the gateway reports for each order_id
    wh,             \* webhook-server threads: position and locals of the request
    deliveries,     \* webhook requests received so far
    credits,        \* history: add_balance calls made by handle_payment_success, by order_id
    handled,        \* history: the order_ids a success webhook was answered for
    last,           \* the request answered last, with its HTTP code and the value
                    \* handle_payment_success returned for it
    events,         \* history: what happened around each order_id (see Receive, Crash)
    balance0,       \* history: opening balances
    orders,         \* the orders table, by id (status "none": no row)
    stock,          \* the stock table, by id: is_available, reserved_for_order (0: NULL)
    co,             \* create_new_order calls: position and locals
    po,             \* process_order calls: position and locals
    sweep,          \* process_pending_orders: position, ids still to process, counters
    calls,          \* order_manager calls started so far
    result,         \* the value returned by the order_manager call that returned last
    held,           \* history: the stock ids reserve_stock_codes returned for each order
                    \* and that were not released or used since
    paid,           \* history: debited for each order, refunded for each order
    dr,             \* deliver_with_retry: position and locals of the call
    dtable,         \* the deliveries table: rows with status 'success', 'failed'
    dresult,        \* the value returned by the deliver_with_retry call that returned last
    dcalls,         \* deliver_with_retry and smart_delivery calls started so far
    sd,             \* smart_delivery: position and locals of the call, what it returned
    added,          \* the rows add_stock_code has inserted, in order: the payloads
    addResult       \* the value returned by the stock_manager call that returned last

whVars == <<topups, amountOf, wh, deliveries, credits, handled, last, events>>

omVars == <<orders, stock, co, po, sweep, calls, result, held, paid>>

dhVars == <<dr, dtable, dresult, dcalls, sd>>

smVars == <<added, addResult>>

vars == <<balance, balance0, whVars, omVars, dhVars, smVars>>

(***************************************************************************)
(* Storage primitives (database.py), one atomic statement each.            *)
(***************************************************************************)

\* add_balance(user_id, amount) -> new balance, or None (here -1) when amount <= 0
AddBalanceResult(bal, user_id, amount) ==
    IF amount <= 0 THEN -1 ELSE bal[user_id] + amount

AddBalance(bal, user_id, amount) ==
    IF amount <= 0 THEN bal ELSE [bal EXCEPT ![user_id] = @ + amount]

\* create_topup(user_id, amount, order_id, ...): inserts the row as 'pending',
\* or updates the row's payment fields when it exists (its status is kept)
CreateTopup(tp, order_id) ==
    IF tp[order_id] = "none" THEN [tp EXCEPT ![order_id] = "pending"] ELSE tp

\* update_topup_status(order_id, status): UPDATE ... WHERE order_id = ?
UpdateTopupStatus(tp, order_id, status) ==
    IF tp[order_id] = "none" THEN tp ELSE [tp EXCEPT ![order_id] = status]

\* get_balance(user_id)
GetBalance(bal, user_id) == bal[user_id]

\* deduct_balance(user_id, amount) -> bool: one atomic check-and-subtract
DeductBalanceOk(bal, user_id, amount) == bal[user_id] >= amount

DeductBalance(bal, user_id, amount) ==
    IF DeductBalanceOk(bal, user_id, amount)
    THEN [bal EXCEPT ![user_id] = @ - amount] ELSE bal

NoOrder == [status |-> "none", delivery_status |-> "none", user_id |-> 0,
            package_type |-> "none", code_quantity |-> 0, total_price |-> 0,
            payment_method |-> "none"]

\* create_order(...) -> (order_id, order_number): the next id, a Pending row
NextOrderId(ord) == Cardinality({o \in OrderIds : ord[o].status # "none"}) + 1

CreateOrder(ord, user_id, package_type, code_quantity, total_price, payment_method) ==
    [ord EXCEPT ![NextOrderId(ord)] =
        [status |-> "pending", delivery_status |-> "pending", user_id |-> user_id,
         package_type |-> package_type, code_quantity |-> code_quantity,
         total_price |-> total_price, payment_method |-> payment_method]]

\* update_order_status(order_id, status, delivery_status)
UpdateOrderStatus(ord, order_id, status, delivery_status) ==
    [ord EXCEPT ![order_id].status = status,
                ![order_id].delivery_status = delivery_status]

\* update_order_status(order_id, status): the delivery status is kept
UpdateOrderStatusOnly(ord, order_id, status) ==
    [ord EXCEPT ![order_id].status = status]

\* the three states of a stock row
Available(st, i) == st[i].is_available /\ st[i].reserved_for_order = 0

Reserved(st, i) == st[i].is_available /\ st[i].reserved_for_order # 0

Consumed(st, i) == ~st[i].is_available

\* get_available_stock_count()
AvailableStock(st) == {i \in StockIds : Available(st, i)}

GetAvailableStockCount(st) == Cardinality(AvailableStock(st))

Min(a, b) == IF a <= b THEN a ELSE b

\* reserve_stock_codes(order_id, quantity) -> ids: claims up to quantity
\* Available rows in one statement; which rows is not specified
ReserveChoices(st, quantity) ==
    {S \in SUBSET AvailableStock(st) :
        Cardinality(S) = Min(quantity, GetAvailableStockCount(st))}

ReserveStockCodes(st, order_id, S) ==
    [i \in StockIds |->
        IF i \in S THEN [st[i] EXCEPT !.reserved_for_order = order_id] ELSE st[i]]

\* get_reserved_codes(order_id): the rows Reserved for the order
GetReservedCodes(st, order_id) ==
    {i \in StockIds : Reserved(st, i) /\ st[i].reserved_for_order = order_id}

\* mark_codes_as_used(stock_ids, user_id): the rows, by id, become Consumed
MarkCodesAsUsed(st, ids) ==
    [i \in StockIds |->
        IF i \in ids THEN [is_available |-> FALSE, reserved_for_order |-> 0] ELSE st[i]]

(***************************************************************************)
(* order_manager.py: what the calls return                                 *)
(***************************************************************************)

\* the returned dict, with two history fields for create_new_order: whether
\* its deduct_balance returned True, and what the call has taken from the
\* balance less what it has put back
NoResult == [op |-> "none", success |-> FALSE, order_id |-> 0, error |-> "none",
             deducted |-> FALSE, taken |-> 0, delivered |-> FALSE,
             refunded |-> FALSE, processed |-> 0, succeeded |-> 0, failed |-> 0]

(***************************************************************************)
(* order_manager.py: create_new_order                                      *)
(***************************************************************************)

IdleCreate == [pc |-> "idle", user_id |-> 0, package_type |-> "none",
               payment_method |-> "none", order_id |-> 0,
               deducted |-> FALSE, taken |-> 0]

CreateResult(f, success, order_id, error) ==
    [NoResult EXCEPT !.op = "create_new_order", !.success = success,
                     !.order_id = order_id, !.error = error,
                     !.deducted = f.deducted, !.taken = f.taken]

\* the call of frame t returns, its locals being f
CreateReturns(t, f, success, order_id, error) ==
    /\ co' = [co EXCEPT ![t] = IdleCreate]
    /\ result' = CreateResult(f, success, order_id, error)

\* the call of frame t goes on with the locals f
CreateContinues(t, f) ==
    /\ co' = [co EXCEPT ![t] = f]
    /\ UNCHANGED result

Quantity(f) == PACKAGE_CONFIG[f.package_type].quantity

Price(f) == PACKAGE_CONFIG[f.package_type].price

\* calls that have not inserted their order row yet
Creating == {t \in Creators : co[t].pc \in {"check_stock", "deduct", "create_order"}}

\* lines 112-127 with validate_order_request lines 31-63: the package, the
\* quantity ceiling, the balance read
CreateBegin(t, user_id, package_type, payment_method) ==
    /\ calls < MaxCalls
    /\ calls' = calls + 1
    /\ co[t].pc = "idle"
    /\ NextOrderId(orders) + Cardinality(Creating) <= MaxOrders
    /\ IF package_type \notin DOMAIN PACKAGE_CONFIG
       THEN CreateReturns(t, IdleCreate, FALSE, 0, "invalid_package")
       ELSE IF PACKAGE_CONFIG[package_type].quantity > MAX_CODES_PER_ORDER
       THEN CreateReturns(t, IdleCreate, FALSE, 0, "max_codes")
       ELSE IF GetBalance(balance, user_id) < PACKAGE_CONFIG[package_type].price
       THEN CreateReturns(t, IdleCreate, FALSE, 0, "insufficient_balance")
       ELSE CreateContinues(t, [IdleCreate EXCEPT !.pc = "check_stock",
                                                  !.user_id = user_id,
                                                  !.package_type = package_type,
                                                  !.payment_method = payment_method])
    /\ UNCHANGED <<balance, balance0, whVars, dhVars, smVars, orders, stock, po, sweep, held, paid>>

\* a validation that sets the rows it counted aside for the caller
CreateCheckStockHolds(t) ==
    /\ co[t].pc = "check_stock"
    /\ IF GetAvailableStockCount(stock) < Quantity(co[t])
       THEN /\ CreateReturns(t, co[t], FALSE, 0, "insufficient_stock")
            /\ UNCHANGED stock
       ELSE /\ CreateContinues(t, [co[t] EXCEPT !.pc = "deduct"])
            /\ \E S \in ReserveChoices(stock, Quantity(co[t])) :
                  stock' = ReserveStockCodes(stock, NextOrderId(orders), S)
    /\ UNCHANGED <<balance, balance0, whVars, dhVars, smVars, orders, po, sweep, held, paid, calls>>

\* validate_order_request lines 65-86: the stock count read
CreateCheckStock(t) ==
    /\ co[t].pc = "check_stock"
    /\ IF GetAvailableStockCount(stock) < Quantity(co[t])
       THEN CreateReturns(t, co[t], FALSE, 0, "insufficient_stock")
       ELSE CreateContinues(t, [co[t] EXCEPT !.pc = "deduct"])
    /\ UNCHANGED <<balance, balance0, whVars, dhVars, smVars, orders, stock, po, sweep, held, paid, calls>>

\* a debit that trusts the balance read of the validation
CreateDeductUnchecked(t) ==
    /\ co[t].pc = "deduct"
    /\ balance' = [balance EXCEPT ![co[t].user_id] = @ - Price(co[t])]
    /\ CreateContinues(t, [co[t] EXCEPT !.pc = "create_order", !.deducted = TRUE,
                                        !.taken = Price(co[t])])
    /\ UNCHANGED <<balance0, whVars, dhVars, smVars, orders, stock, po, sweep, held, paid, calls>>

\* lines 129-138
CreateDeduct(t) ==
    /\ co[t].pc = "deduct"
    /\ balance' = DeductBalance(balance, co[t].user_id, Price(co[t]))
    /\ IF DeductBalanceOk(balance, co[t].user_id, Price(co[t]))
       THEN CreateContinues(t, [co[t] EXCEPT !.pc = "create_order", !.deducted = TRUE,
                                             !.taken = Price(co[t])])
       ELSE CreateReturns(t, co[t], FALSE, 0, "deduct_failed")
    /\ UNCHANGED <<balance0, whVars, dhVars, smVars, orders, stock, po, sweep, held, paid, calls>>

\* lines 140-159 and 191-199: create_order inserts the row, or returns no id,
\* or raises
CreateOrderRow(t, outcome) ==
    /\ co[t].pc = "create_order"
    /\ CASE outcome = "ok" ->
              /\ orders' = CreateOrder(orders, co[t].user_id, co[t].package_type,
                                       Quantity(co[t]), Price(co[t]), co[t].payment_method)
              /\ paid' = [paid EXCEPT ![NextOrderId(orders)].debited = Price(co[t])]
              /\ CreateContinues(t, [co[t] EXCEPT !.pc = "reserve",
                                                  !.order_id = NextOrderId(orders)])
         [] outcome = "none" ->
              /\ CreateContinues(t, [co[t] EXCEPT !.pc = "refund_no_order"])
              /\ UNCHANGED <<orders, paid>>
         [] outcome = "raise" ->
              /\ CreateReturns(t, co[t], FALSE, 0, "exception")
              /\ UNCHANGED <<orders, paid>>
    /\ UNCHANGED <<balance, balance0, whVars, dhVars, smVars, stock, po, sweep, held, calls>>

\* lines 149-159
CreateRefundNoOrder(t) ==
    /\ co[t].pc = "refund_no_order"
    /\ balance' = AddBalance(balance, co[t].user_id, Price(co[t]))
    /\ CreateReturns(t, [co[t] EXCEPT !.taken = @ - Price(co[t])], FALSE, 0,
                     "create_failed")
    /\ UNCHANGED <<balance0, whVars, dhVars, smVars, orders, stock, po, sweep, held, paid, calls>>

\* a reservation that takes rows whether or not another order holds them
CreateReserveAny(t, S, outcome) ==
    /\ co[t].pc = "reserve"
    /\ outcome = "ok"
    /\ S \subseteq {i \in StockIds : stock[i].is_available}
    /\ Cardinality(S) = Min(Quantity(co[t]),
                            Cardinality({i \in StockIds : stock[i].is_available}))
    /\ stock' = ReserveStockCodes(stock, co[t].order_id, S)
    /\ held' = [held EXCEPT ![co[t].order_id] = @ \cup S]
    /\ CreateReturns(t, co[t], TRUE, co[t].order_id, "none")
    /\ UNCHANGED <<balance, balance0, whVars, dhVars, smVars, orders, po, sweep, paid, calls>>

\* lines 161-163, 176-189 and 191-199: reserve_stock_codes claims the rows S,
\* or raises
CreateReserve(t, S, outcome) ==
    /\ co[t].pc = "reserve"
    /\ IF outcome = "raise"
       THEN /\ S = {}
            /\ CreateReturns(t, co[t], FALSE, 0, "exception")
            /\ UNCHANGED <<stock, held>>
       ELSE /\ S \in ReserveChoices(stock, Quantity(co[t]))
            /\ stock' = ReserveStockCodes(stock, co[t].order_id, S)
            /\ held' = [held EXCEPT ![co[t].order_id] = @ \cup S]
            /\ IF Cardinality(S) < Quantity(co[t])
               THEN CreateContinues(t, [co[t] EXCEPT !.pc = "rollback_refund"])
               ELSE CreateReturns(t, co[t], TRUE, co[t].order_id, "none")
    /\ UNCHANGED <<balance, balance0, whVars, dhVars, smVars, orders, po, sweep, paid, calls>>

\* a rollback that fails the order without giving the price back
CreateRollbackKeepsPrice(t) ==
    /\ co[t].pc = "rollback_refund"
    /\ CreateContinues(t, [co[t] EXCEPT !.pc = "rollback_status"])
    /\ UNCHANGED <<balance, paid, balance0, whVars, dhVars, smVars, orders, stock, po, sweep, held, calls>>

\* lines 164-166
CreateRollbackRefund(t) ==
    /\ co[t].pc = "rollback_refund"
    /\ balance' = AddBalance(balance, co[t].user_id, Price(co[t]))
    /\ paid' = [paid EXCEPT ![co[t].order_id].refunded = @ + Price(co[t])]
    /\ CreateContinues(t, [co[t] EXCEPT !.pc = "rollback_status",
                                        !.taken = @ - Price(co[t])])
    /\ UNCHANGED <<balance0, whVars, dhVars, smVars, orders, stock, po, sweep, held, calls>>

\* lines 167-174
CreateRollbackStatus(t) ==
    /\ co[t].pc = "rollback_status"
    /\ orders' = UpdateOrderStatus(orders, co[t].order_id, "failed", "stock_unavailable")
    /\ CreateReturns(t, co[t], FALSE, co[t].order_id, "reserve_short")
    /\ UNCHANGED <<balance, balance0, whVars, dhVars, smVars, stock, po, sweep, held, paid, calls>>

(***************************************************************************)
(* order_manager.py: process_order, retry_order_delivery,                  *)
(* process_pending_orders, cancel_order.  The three coroutines run on one  *)
(* event loop: a step lasts from one await to the next.                    *)
(***************************************************************************)

IdleProcess == [pc |-> "idle", op |-> "none", order_id |-> 0, codes |-> {}]

ProcessResult(op, order_id, success, delivered, error) ==
    [NoResult EXCEPT !.op = op, !.order_id = order_id, !.success = success,
                     !.delivered = delivered, !.error = error]

IdleSweep == [pc |-> "idle", handler |-> FALSE, queue |-> <<>>,
              processed |-> 0, succeeded |-> 0, failed |-> 0]

\* process_pending_orders lines 600-606: one result counted
Counted(sw, res) ==
    [sw EXCEPT !.processed = @ + 1,
               !.succeeded = IF res.success /\ res.delivered THEN @ + 1 ELSE @,
               !.failed = IF res.success /\ res.delivered THEN @ ELSE @ + 1]

\* the call of caller c returns res; the sweep, now sw, counts a call of its own
ProcessReturns(c, res, sw) ==
    /\ po' = [po EXCEPT ![c] = IdleProcess]
    /\ result' = res
    /\ sweep' = IF c = "sweep" THEN Counted(sw, res) ELSE sw

\* the call of caller c awaits the delivery handler, its locals being f
ProcessAwaits(c, f, sw) ==
    /\ po' = [po EXCEPT ![c] = f]
    /\ sweep' = sw
    /\ UNCHANGED result

\* process_order line 232 and retry_order_delivery line 427: the order is
\* already Completed
AlreadyCompletedNever(ord, order_id) == FALSE

AlreadyCompleted(ord, order_id) == ord[order_id].status = "completed"

\* the handler is awaited whether or not one was supplied
AutoDeliveryAlways(handler) == TRUE

\* process_order line 259: if delivery_handler and config.AUTO_DELIVERY_ENABLED
AutoDelivery(handler) == handler /\ AUTO_DELIVERY_ENABLED

\* process_order lines 220-278, up to the await of the delivery handler
ProcessOrderStart(c, op, order_id, handler, sw) ==
    /\ po[c].pc = "idle"
    /\ IF orders[order_id].status = "none"
       THEN \* lines 223-229
            /\ ProcessReturns(c, ProcessResult(op, order_id, FALSE, FALSE, "not_found"), sw)
            /\ UNCHANGED orders
       ELSE IF AlreadyCompleted(orders, order_id)
       THEN \* lines 231-237
            /\ ProcessReturns(c, ProcessResult(op, order_id, TRUE, TRUE, "none"), sw)
            /\ UNCHANGED orders
       ELSE IF GetReservedCodes(stock, order_id) = {}
       THEN \* lines 239-248
            /\ orders' = UpdateOrderStatus(orders, order_id, "failed", "no_codes")
            /\ ProcessReturns(c, ProcessResult(op, order_id, FALSE, FALSE, "no_codes"), sw)
       ELSE IF AutoDelivery(handler)
       THEN \* lines 258-265
            /\ ProcessAwaits(c, [pc |-> "delivering", op |-> op, order_id |-> order_id,
                                 codes |-> GetReservedCodes(stock, order_id)], sw)
            /\ UNCHANGED orders
       ELSE \* lines 270-278
            /\ orders' = UpdateOrderStatus(orders, order_id, "pending",
                                           "pending_manual_delivery")
            /\ ProcessReturns(c, ProcessResult(op, order_id, TRUE, FALSE, "none"), sw)

\* process_order called by the confirm flow or the admin command
ProcessOrder(order_id, handler) ==
    /\ calls < MaxCalls
    /\ calls' = calls + 1
    /\ ProcessOrderStart("direct", "process_order", order_id, handler, sweep)
    /\ UNCHANGED <<balance, balance0, whVars, dhVars, smVars, stock, co, held, paid>>

\* retry_order_delivery lines 419-436
RetryOrderDelivery(order_id, handler) ==
    /\ calls < MaxCalls
    /\ calls' = calls + 1
    /\ po["direct"].pc = "idle"
    /\ IF orders[order_id].status = "none"
       THEN /\ ProcessReturns("direct", ProcessResult("retry_order_delivery", order_id,
                                                      FALSE, FALSE, "not_found"), sweep)
            /\ UNCHANGED orders
       ELSE IF AlreadyCompleted(orders, order_id)
       THEN /\ ProcessReturns("direct", ProcessResult("retry_order_delivery", order_id,
                                                      TRUE, FALSE, "none"), sweep)
            /\ UNCHANGED orders
       ELSE ProcessOrderStart("direct", "retry_order_delivery", order_id, handler, sweep)
    /\ UNCHANGED <<balance, balance0, whVars, dhVars, smVars, stock, co, held, paid>>

\* a delivery that completes the order without marking its codes as used
ProcessOrderDeliveredUnmarked(c, outcome) ==
    /\ po[c].pc = "delivering"
    /\ IF outcome = "success"
       THEN /\ orders' = UpdateOrderStatus(orders, po[c].order_id, "completed", "delivered")
            /\ ProcessReturns(c, ProcessResult(po[c].op, po[c].order_id, TRUE, TRUE, "none"),
                              sweep)
       ELSE /\ orders' = UpdateOrderStatus(orders, po[c].order_id, "pending",
                                           "delivery_failed")
            /\ ProcessReturns(c, ProcessResult(po[c].op, po[c].order_id, FALSE, FALSE,
                                               "delivery_failed"), sweep)
    /\ UNCHANGED <<stock, held, balance, balance0, whVars, dhVars, smVars, co, paid, calls>>

\* a delivery that gives the order up when the handler fails: the codes go
\* back to the pool and the order is failed
ProcessOrderDeliveredGivesUp(c, outcome) ==
    /\ po[c].pc = "delivering"
    /\ IF outcome = "success"
       THEN /\ stock' = MarkCodesAsUsed(stock, po[c].codes)
            /\ held' = [o \in OrderIds |-> held[o] \ po[c].codes]
            /\ orders' = UpdateOrderStatus(orders, po[c].order_id, "completed", "delivered")
            /\ ProcessReturns(c, ProcessResult(po[c].op, po[c].order_id, TRUE, TRUE, "none"),
                              sweep)
       ELSE /\ stock' = [i \in StockIds |->
                           IF i \in po[c].codes
                           THEN [stock[i] EXCEPT !.reserved_for_order = 0] ELSE stock[i]]
            /\ held' = [o \in OrderIds |-> held[o] \ po[c].codes]
            /\ orders' = UpdateOrderStatus(orders, po[c].order_id, "failed",
                                           "delivery_failed")
            /\ ProcessReturns(c, ProcessResult(po[c].op, po[c].order_id, FALSE, FALSE,
                                               "delivery_failed"), sweep)
    /\ UNCHANGED <<balance, balance0, whVars, dhVars, smVars, co, paid, calls>>

\* a delivery that cancels and refunds the order when its delivery fails for
\* the second time
ProcessOrderDeliveredAutoCancels(c, outcome) ==
    /\ po[c].pc = "delivering"
    /\ IF outcome = "success"
       THEN /\ stock' = MarkCodesAsUsed(stock, po[c].codes)
            /\ held' = [o \in OrderIds |-> held[o] \ po[c].codes]
            /\ orders' = UpdateOrderStatus(orders, po[c].order_id, "completed", "delivered")
            /\ ProcessReturns(c, ProcessResult(po[c].op, po[c].order_id, TRUE, TRUE, "none"),
                              sweep)
            /\ UNCHANGED <<balance, paid>>
       ELSE IF orders[po[c].order_id].delivery_status = "delivery_failed"
       THEN /\ stock' = [i \in StockIds |->
                           IF i \in po[c].codes
                           THEN [stock[i] EXCEPT !.reserved_for_order = 0] ELSE stock[i]]
            /\ held' = [o \in OrderIds |-> held[o] \ po[c].codes]
            /\ balance' = AddBalance(balance, orders[po[c].order_id].user_id,
                                     orders[po[c].order_id].total_price)
            /\ paid' = [paid EXCEPT ![po[c].order_id].refunded =
                            @ + orders[po[c].order_id].total_price]
            /\ orders' = UpdateOrderStatus(orders, po[c].order_id, "cancelled",
                                           "delivery_failed")
            /\ ProcessReturns(c, ProcessResult(po[c].op, po[c].order_id, FALSE, FALSE,
                                               "delivery_failed"), sweep)
       ELSE /\ orders' = UpdateOrderStatus(orders, po[c].order_id, "pending",
                                           "delivery_failed")
            /\ ProcessReturns(c, ProcessResult(po[c].op, po[c].order_id, FALSE, FALSE,
                                               "delivery_failed"), sweep)
            /\ UNCHANGED <<stock, held, balance, paid>>
    /\ UNCHANGED <<balance0, whVars, dhVars, smVars, co, calls>>

\* process_order lines 266-305: the delivery handler has returned success,
\* returned a failure, or raised
ProcessOrderDelivered(c, outcome) ==
    /\ po[c].pc = "delivering"
    /\ IF outcome = "success"
       THEN \* lines 280-294
            /\ stock' = MarkCodesAsUsed(stock, po[c].codes)
            /\ held' = [o \in OrderIds |-> held[o] \ po[c].codes]
            /\ orders' = UpdateOrderStatus(orders, po[c].order_id, "completed", "delivered")
            /\ ProcessReturns(c, ProcessResult(po[c].op, po[c].order_id, TRUE, TRUE, "none"),
                              sweep)
       ELSE \* lines 267-269 and 295-305
            /\ orders' = UpdateOrderStatus(orders, po[c].order_id, "pending",
                                           "delivery_failed")
            /\ ProcessReturns(c, ProcessResult(po[c].op, po[c].order_id, FALSE, FALSE,
                                               "delivery_failed"), sweep)
            /\ UNCHANGED <<stock, held>>
    /\ UNCHANGED <<balance, balance0, whVars, dhVars, smVars, co, paid, calls>>

RECURSIVE Ascending(_)
\* the ids of a set, in ascending order (ORDER BY created_at ASC)
Ascending(S) ==
    IF S = {} THEN <<>>
    ELSE LET m == CHOOSE x \in S : \A y \in S : x <= y
         IN <<m>> \o Ascending(S \ {m})

\* a selection without the LIMIT clause
PendingSelectionUnlimited(ord, max_orders) ==
    Ascending({o \in OrderIds : ord[o].status = "pending"
                                /\ ord[o].delivery_status # "delivered"})

\* process_pending_orders lines 570-592: the oldest max_orders Pending orders
\* whose delivery status is not 'delivered'
PendingSelection(ord, max_orders) ==
    LET all == Ascending({o \in OrderIds : ord[o].status = "pending"
                                           /\ ord[o].delivery_status # "delivered"})
    IN SubSeq(all, 1, Min(max_orders, Len(all)))

\* process_pending_orders lines 567-597
SweepStart(handler, max_orders) ==
    /\ calls < MaxCalls
    /\ calls' = calls + 1
    /\ sweep.pc = "idle"
    /\ sweep' = [IdleSweep EXCEPT !.pc = "loop", !.handler = handler,
                                  !.queue = PendingSelection(orders, max_orders)]
    /\ UNCHANGED <<balance, balance0, whVars, dhVars, smVars, orders, stock, co, po, result, held, paid>>

\* lines 599-609: the next order of the list is processed
SweepStep ==
    /\ sweep.pc = "loop"
    /\ sweep.queue # <<>>
    /\ ProcessOrderStart("sweep", "process_order", Head(sweep.queue), sweep.handler,
                         [sweep EXCEPT !.queue = Tail(@)])
    /\ UNCHANGED <<balance, balance0, whVars, dhVars, smVars, stock, co, held, paid, calls>>

\* lines 611-617: the list is done, the counters are returned
SweepFinish ==
    /\ sweep.pc = "loop"
    /\ sweep.queue = <<>>
    /\ po["sweep"].pc = "idle"
    /\ result' = [NoResult EXCEPT !.op = "process_pending_orders", !.success = TRUE,
                                  !.processed = sweep.processed,
                                  !.succeeded = sweep.succeeded,
                                  !.failed = sweep.failed]
    /\ sweep' = IdleSweep
    /\ UNCHANGED <<balance, balance0, whVars, dhVars, smVars, orders, stock, co, po, held, paid, calls>>

CancelResult(order_id, success, refunded, error) ==
    [NoResult EXCEPT !.op = "cancel_order", !.order_id = order_id,
                     !.success = success, !.refunded = refunded, !.error = error]

\* cancel_order lines 334-356: no such order, or an order that is Completed
\* or Cancelled already
CancelRefusedMissing(ord, order_id) == ord[order_id].status = "none"

CancelRefused(ord, order_id) == ord[order_id].status \in {"none", "completed", "cancelled"}

\* cancel_order lines 326-398
CancelOrder(order_id, refund) ==
    /\ calls < MaxCalls
    /\ calls' = calls + 1
    /\ IF ~ENABLE_ORDER_CANCELLATION
       THEN \* lines 327-332
            /\ result' = CancelResult(order_id, FALSE, FALSE, "disabled")
            /\ UNCHANGED <<balance, balance0, whVars, dhVars, smVars, orders, stock, co, po, sweep, held, paid>>
       ELSE IF CancelRefused(orders, order_id)
       THEN \* lines 334-356
            /\ result' = CancelResult(order_id, FALSE, FALSE,
                                      IF orders[order_id].status = "none"
                                      THEN "not_found" ELSE orders[order_id].status)
            /\ UNCHANGED <<balance, balance0, whVars, dhVars, smVars, orders, stock, co, po, sweep, held, paid>>
       ELSE \* lines 358-398
            /\ stock' = [i \in StockIds |->
                           IF stock[i].reserved_for_order = order_id
                           THEN [stock[i] EXCEPT !.reserved_for_order = 0] ELSE stock[i]]
            /\ held' = [held EXCEPT ![order_id] = {}]
            /\ IF refund /\ ENABLE_REFUND /\ orders[order_id].payment_method = "balance"
               THEN /\ balance' = AddBalance(balance, orders[order_id].user_id,
                                            orders[order_id].total_price)
                    /\ paid' = [paid EXCEPT ![order_id].refunded =
                                    @ + orders[order_id].total_price]
                    /\ result' = CancelResult(order_id, TRUE,
                                     AddBalanceResult(balance, orders[order_id].user_id,
                                                      orders[order_id].total_price) # -1,
                                     "none")
               ELSE /\ result' = CancelResult(order_id, TRUE, FALSE, "none")
                    /\ UNCHANGED <<balance, paid>>
            /\ orders' = UpdateOrderStatusOnly(orders, order_id, "cancelled")
            /\ UNCHANGED <<balance0, whVars, dhVars, smVars, co, po, sweep>>

(***************************************************************************)
(* bot.py: the periodic sweep                                              *)
(***************************************************************************)
\* a loop that starts a run whether or not the previous one has returned
LoopIdleOrRunning(sw) == TRUE

\* line 652, @tasks.loop(minutes=5): the next run of the task starts after
\* the previous one has returned
LoopIdle(sw) == sw.pc = "idle"

\* check_pending_orders lines 652-670: process_pending_orders is called with
\* the delivery wrapper and the fixed max_orders
CheckPendingOrders ==
    /\ LoopIdle(sweep)
    /\ sweep' = [IdleSweep EXCEPT !.pc = "loop", !.handler = TRUE,
                                  !.queue = PendingSelection(orders, SweepMaxOrders)]
    /\ UNCHANGED <<balance, balance0, whVars, dhVars, smVars, orders, stock, co, po, result,
                   held, paid, calls>>

\* the orders whose delivery succeeds whenever it is tried; the delivery of
\* the max_orders oldest orders fails whenever it is tried
Deliverable == {o \in OrderIds : o > SweepMaxOrders}

\* the delivery handler of the sweep returns
SweepDelivered ==
    ProcessOrderDelivered("sweep", IF po["sweep"].order_id \in Deliverable
                                   THEN "success" ELSE "failed")

(***************************************************************************)
(* webhook_server.py                                                       *)
(***************************************************************************)

\* a request: is the body JSON, does parse_webhook_notification accept it,
\* the order_id and the mapped status
Requests ==
    [json : BOOLEAN, valid : BOOLEAN, order_id : WebhookIds,
     status : {"success", "pending", "failed"}]

\* the signature-valid notifications of top-ups
TopupRequests == {r \in Requests : r.json /\ r.valid /\ r.order_id \in TopupIds}

IdleThread == [pc |-> "idle", req |-> <<>>, order_id |-> <<>>, user_id |-> 0,
               amount |-> 0, new_balance |-> 0]

NoAnswer == [req |-> <<>>, resp |-> 0, ret |-> "none"]

Answer(req, resp, ret) == [req |-> req, resp |-> resp, ret |-> ret]

\* lines 57-67: parse_webhook_notification accepted the notification
ParsedValidAlways(req) == TRUE

ParsedValid(req) == req.valid

\* line 78: the mapped status is 'success'
PaymentSucceededAlways(req) == TRUE

PaymentSucceeded(req) == req.status = "success"

\* handle_payment_success, lines 120-130: the order_id has three parts and an
\* integer user id
WellFormedInteger(order_id) == Len(order_id) >= 2 /\ order_id[2] \in DOMAIN IntOf

WellFormed(order_id) == Len(order_id) >= 3 /\ order_id[2] \in DOMAIN IntOf

\* every payment taken for a top-up
IsTopupAny(order_id) == TRUE

\* line 133: order_id.startswith('TOPUP-')
IsTopup(order_id) == Len(order_id) >= 2 /\ order_id[1] = "TOPUP"

\* lines 139-159: the row exists and its status is 'success'
AlreadyProcessedNever(tp, order_id) == FALSE

AlreadyProcessed(tp, order_id) == tp[order_id] = "success"

Busy(t) == wh[t].pc # "idle"

\* history kept for one order_id when a request for it is received by thread t
Note(t, req) ==
    (IF req.status # "success" THEN {"nonsuccess"} ELSE {})
    \cup (IF \E u \in WebhookThreads \ {t} : Busy(u) /\ wh[u].order_id = req.order_id
          THEN {"overlap"} ELSE {})

\* midtrans_webhook up to its first storage statement
Receive(t, req) ==
    /\ ~Busy(t)
    /\ deliveries < MaxDeliveries
    /\ deliveries' = deliveries + 1
    /\ UNCHANGED <<balance, amountOf, credits, balance0, omVars, dhVars, smVars>>
    /\ IF ~req.json \/ ~ParsedValid(req)
       THEN \* lines 42-47 and 62-67
            /\ wh' = [wh EXCEPT ![t] = IdleThread]
            /\ last' = Answer(req, 400, "none")
            /\ UNCHANGED <<topups, handled, events>>
       ELSE /\ events' = [events EXCEPT ![req.order_id] = @ \cup Note(t, req)]
            /\ IF ~PaymentSucceeded(req)
               THEN \* lines 82-91
                    /\ topups' = UpdateTopupStatus(topups, req.order_id, req.status)
                    /\ wh' = [wh EXCEPT ![t] = IdleThread]
                    /\ last' = Answer(req, 200, "none")
                    /\ UNCHANGED handled
               ELSE IF ~WellFormed(req.order_id)
               THEN \* lines 122-130
                    /\ wh' = [wh EXCEPT ![t] = IdleThread]
                    /\ last' = Answer(req, 200, "false")
                    /\ UNCHANGED <<topups, handled>>
               ELSE IF ~IsTopup(req.order_id)
               THEN \* lines 202-207
                    /\ topups' = UpdateTopupStatus(topups, req.order_id, "success")
                    /\ wh' = [wh EXCEPT ![t] = IdleThread]
                    /\ last' = Answer(req, 200, "true")
                    /\ UNCHANGED handled
               ELSE IF AlreadyProcessed(topups, req.order_id)
               THEN \* lines 155-159
                    /\ wh' = [wh EXCEPT ![t] = IdleThread]
                    /\ last' = Answer(req, 200, "true")
                    /\ handled' = handled \cup {req.order_id}
                    /\ UNCHANGED topups
               ELSE /\ wh' = [wh EXCEPT ![t] =
                              [IdleThread EXCEPT !.pc = "create_topup",
                                                 !.req = req,
                                                 !.order_id = req.order_id,
                                                 !.user_id = IntOf[req.order_id[2]],
                                                 !.amount = amountOf[req.order_id]]]
                    /\ UNCHANGED <<topups, handled, last>>

\* lines 161-168
TopupCreate(t) ==
    /\ wh[t].pc = "create_topup"
    /\ topups' = CreateTopup(topups, wh[t].order_id)
    /\ wh' = [wh EXCEPT ![t].pc = "add_balance"]
    /\ UNCHANGED <<balance, amountOf, deliveries, credits, handled, last, events, balance0, omVars, dhVars, smVars>>

\* lines 170-171
TopupCredit(t) ==
    /\ wh[t].pc = "add_balance"
    /\ balance' = AddBalance(balance, wh[t].user_id, wh[t].amount)
    /\ credits' = [credits EXCEPT ![wh[t].order_id] =
                      IF wh[t].amount > 0 THEN @ + 1 ELSE @]
    /\ wh' = [wh EXCEPT ![t].pc = "update_status",
                        ![t].new_balance = AddBalanceResult(balance, wh[t].user_id, wh[t].amount)]
    /\ UNCHANGED <<topups, amountOf, deliveries, handled, last, events, balance0, omVars, dhVars, smVars>>

\* lines 173-200
TopupMark(t) ==
    /\ wh[t].pc = "update_status"
    /\ IF wh[t].new_balance # -1
       THEN /\ topups' = UpdateTopupStatus(topups, wh[t].order_id, "success")
            /\ last' = Answer(wh[t].req, 200, "true")
       ELSE /\ topups' = UpdateTopupStatus(topups, wh[t].order_id, "failed")
            /\ last' = Answer(wh[t].req, 200, "false")
    /\ wh' = [wh EXCEPT ![t] = IdleThread]
    /\ handled' = handled \cup {wh[t].order_id}
    /\ UNCHANGED <<balance, amountOf, deliveries, credits, events, balance0, omVars, dhVars, smVars>>

\* the process dies while requests are being handled: their positions are lost,
\* what they wrote to the database stays
Crash ==
    /\ \E t \in WebhookThreads : Busy(t)
    /\ events' = [o \in WebhookIds |->
                    IF \E t \in WebhookThreads : Busy(t) /\ wh[t].order_id = o
                    THEN events[o] \cup {"crash"} ELSE events[o]]
    /\ wh' = [t \in WebhookThreads |->
                IF Busy(t) THEN IdleThread ELSE wh[t]]
    /\ UNCHANGED <<balance, topups, amountOf, deliveries, credits, handled, last, balance0, omVars, dhVars, smVars>>

(***************************************************************************)
(* delivery_handler.py: deliver_with_retry                                 *)
(***************************************************************************)
\* config.DELIVERY_RETRY_ATTEMPTS, its default
DELIVERY_RETRY_ATTEMPTS == 3

\* smart_delivery line 287: the largest order sent as one direct message
DmCodeLimit == 10

\* line 367: wait_time = attempts * 5
BackoffSeconds == 5

\* deliver_with_retry is not running.  invoked and waits are history: the
\* delivery method invocations of the call, the sleeps of the call in order
IdleRetry ==
    [pc |-> "idle", max_attempts |-> 0, attempts |-> 0, known |-> FALSE,
     invoked |-> 0, waits |-> <<>>]

NoRetryResult == [returned |-> "none", success |-> FALSE, attempts |-> 0]

\* smart_delivery is not running and has not run.  tried is history: the
\* delivery methods the call has awaited, in order, each with its result
IdleSmart ==
    [pc |-> "idle", known |-> FALSE, codes |-> 0, long |-> FALSE, tried |-> <<>>,
     returned |-> FALSE, success |-> FALSE, method |-> "none"]

InitDeliveryIdle ==
    /\ dr = IdleRetry
    /\ dtable = [success |-> 0, failed |-> 0]
    /\ dresult = NoRetryResult
    /\ dcalls = 0
    /\ sd = IdleSmart

\* record_delivery lines 386-424: a row is inserted when get_order_by_number
\* finds the order and the insert does not raise; otherwise nothing is recorded
RecordDelivery(tbl, known, status, outcome) ==
    IF known /\ outcome = "inserted"
    THEN [tbl EXCEPT ![status] = @ + 1]
    ELSE tbl

\* a call that sleeps after every failed attempt
WaitsAfterEveryFailure(f) == TRUE

\* line 366: another attempt follows the failed one
WaitsBeforeRetry(f) == f.attempts < f.max_attempts

\* lines 316-334: the call starts; max_attempts is given or is taken from the
\* configuration; known tells whether order_number is that of a stored order
DeliverWithRetry(known, given, n) ==
    /\ dr.pc = "idle"
    /\ dcalls < MaxRetryCalls
    /\ dcalls' = dcalls + 1
    /\ dr' = [IdleRetry EXCEPT !.pc = "loop", !.known = known,
                               !.max_attempts = IF given THEN n
                                                ELSE DELIVERY_RETRY_ATTEMPTS]
    /\ UNCHANGED <<balance, balance0, whVars, omVars, smVars, sd, dtable, dresult>>

\* lines 336-353 and 371-372: the loop test.  An attempt starts, the delivery
\* method being invoked, or the loop is over; after a loop that never ran,
\* method is unbound and line 372 raises
DeliverLoop ==
    /\ dr.pc = "loop"
    /\ IF dr.attempts < dr.max_attempts
       THEN /\ dr' = [dr EXCEPT !.pc = "deliver", !.attempts = @ + 1,
                                  !.invoked = @ + 1]
            /\ UNCHANGED dresult
       ELSE IF dr.attempts = 0
       THEN /\ dr' = IdleRetry
            /\ dresult' = [returned |-> "raised", success |-> FALSE, attempts |-> 0]
       ELSE /\ dr' = [dr EXCEPT !.pc = "record"]
            /\ UNCHANGED dresult
    /\ UNCHANGED <<balance, balance0, whVars, omVars, smVars, sd, dtable, dcalls>>

\* lines 345-369: the delivery method returns.  On success it has recorded the
\* delivery itself (lines 79, 170, 252) and the call returns; on failure the
\* call sleeps when another attempt follows
DeliverAttempt(outcome, rec) ==
    /\ dr.pc = "deliver"
    /\ IF outcome = "success"
       THEN /\ dtable' = RecordDelivery(dtable, dr.known, "success", rec)
            /\ dresult' = [returned |-> "value", success |-> TRUE,
                           attempts |-> dr.attempts]
            /\ dr' = IdleRetry
       ELSE /\ dr' = IF WaitsBeforeRetry(dr)
                     THEN [dr EXCEPT !.pc = "sleep",
                                     !.waits = Append(@, dr.attempts * BackoffSeconds)]
                     ELSE [dr EXCEPT !.pc = "loop"]
            /\ UNCHANGED <<dtable, dresult>>
    /\ UNCHANGED <<balance, balance0, whVars, omVars, smVars, sd, dcalls>>

\* line 369: the sleep is over
DeliverWake ==
    /\ dr.pc = "sleep"
    /\ dr' = [dr EXCEPT !.pc = "loop"]
    /\ UNCHANGED <<balance, balance0, whVars, omVars, smVars, sd, dtable, dresult, dcalls>>

\* lines 371-380: every attempt failed; the failure is recorded and returned
DeliverGiveUp(rec) ==
    /\ dr.pc = "record"
    /\ dtable' = RecordDelivery(dtable, dr.known, "failed", rec)
    /\ dresult' = [returned |-> "value", success |-> FALSE, attempts |-> dr.attempts]
    /\ dr' = IdleRetry
    /\ UNCHANGED <<balance, balance0, whVars, omVars, smVars, sd, dcalls>>

\* every order goes by direct message first
DmFitsAlways(codes) == TRUE

\* smart_delivery line 287: len(codes) <= 10
DmFits(codes) == codes <= DmCodeLimit

\* deliver_via_dm lines 34-100: a code list longer than 4000 characters is
\* handed to deliver_via_file, whose result is returned (lines 58-60);
\* otherwise the message is sent or is not
DeliverViaDm(long, outcome) ==
    [success |-> outcome = "success", method |-> IF long THEN "file" ELSE "dm"]

\* deliver_via_file lines 199-267: every exception is caught and returned as
\* a failure, discord.Forbidden included
DeliverViaFile(outcome) == [success |-> outcome = "success", method |-> "file"]

\* deliver_via_channel lines 116-185
DeliverViaChannel(outcome) == [success |-> outcome = "success", method |-> "channel"]

\* the result res of the delivery method awaited at stage is noted
Tried(f, stage, res) ==
    [f EXCEPT !.tried = Append(@, [stage |-> stage, success |-> res.success,
                                   method |-> res.method])]

\* smart_delivery lines 273-287: the call starts with the number of codes of
\* the order; long tells whether their list exceeds 4000 characters, known
\* whether order_number is that of a stored order
SmartDelivery(known, codes, long) ==
    /\ sd.pc = "idle"
    /\ dcalls < MaxRetryCalls
    /\ dcalls' = dcalls + 1
    /\ sd' = [IdleSmart EXCEPT !.pc = IF DmFits(codes) THEN "dm" ELSE "file",
                               !.known = known, !.codes = codes, !.long = long]
    /\ UNCHANGED <<balance, balance0, whVars, omVars, smVars, dr, dtable, dresult>>

\* the call returns res, the result of the method that returned last; a
\* method that succeeded has recorded the delivery (lines 79, 170, 252)
SmartReturns(f, res, rec) ==
    /\ sd' = [f EXCEPT !.pc = "idle", !.returned = TRUE, !.success = res.success,
                       !.method = res.method]
    /\ dtable' = IF res.success
                 THEN RecordDelivery(dtable, f.known, "success", rec)
                 ELSE dtable

\* lines 288-290: deliver_via_dm returns
SmartDeliveryDm(outcome, rec) ==
    /\ sd.pc = "dm"
    /\ LET res == DeliverViaDm(sd.long, outcome)
       IN IF res.success
          THEN SmartReturns(Tried(sd, "dm", res), res, rec)
          ELSE /\ sd' = [Tried(sd, "dm", res) EXCEPT !.pc = "file"]
               /\ UNCHANGED dtable
    /\ UNCHANGED <<balance, balance0, whVars, omVars, smVars, dr, dresult, dcalls>>

\* lines 293-298: deliver_via_file returns
SmartDeliveryFile(outcome, rec) ==
    /\ sd.pc = "file"
    /\ LET res == DeliverViaFile(outcome)
       IN IF res.success
          THEN SmartReturns(Tried(sd, "file", res), res, rec)
          ELSE /\ sd' = [Tried(sd, "file", res) EXCEPT !.pc = "channel"]
               /\ UNCHANGED dtable
    /\ UNCHANGED <<balance, balance0, whVars, omVars, smVars, dr, dresult, dcalls>>

\* lines 300-302: deliver_via_channel returns and its result is returned
SmartDeliveryChannel(outcome, rec) ==
    /\ sd.pc = "channel"
    /\ LET res == DeliverViaChannel(outcome)
       IN SmartReturns(Tried(sd, "channel", res), res, rec)
    /\ UNCHANGED <<balance, balance0, whVars, omVars, smVars, dr, dresult, dcalls>>

(***************************************************************************)
(* stock_manager.py: adding a code                                         *)
(***************************************************************************)
\* add_single_code line 101, validate_stock_code line 603: len(code) < 5
MinCodeLength == 5

\* validate_stock_code line 606: len(code) > 500
MaxCodeLength == 500

\* the lengths of a payload between its first and its last character that is
\* not whitespace: none, around the lower limit, around the upper limit
CoreLengths ==
    {0, 1, MinCodeLength - 1, MinCodeLength, MinCodeLength + 1,
     MaxCodeLength - 1, MaxCodeLength, MaxCodeLength + 1, MaxCodeLength + 2}

\* a payload: whitespace, the core, whitespace
Payloads == [lead : 0..1, core : CoreLengths, trail : 0..1]

\* len(code)
Length(code) == code.lead + code.core + code.trail

\* code.strip(): the whitespace at both ends is dropped
Strip(code) == [lead |-> 0, core |-> code.core, trail |-> 0]

NoAddResult == [op |-> "none", success |-> FALSE, error |-> "none", stock_id |-> 0]

InitStockManagerIdle ==
    /\ added = <<>>
    /\ addResult = NoAddResult

\* validate_stock_code lines 592-613
ValidateStockCode(code) ==
    LET c == Strip(code)
    IN IF Length(c) = 0 THEN "Empty code"
       ELSE IF Length(c) < MinCodeLength THEN "Code too short (min 5 characters)"
       ELSE IF Length(c) > MaxCodeLength THEN "Code too long (max 500 characters)"
       ELSE "none"

\* add_single_code lines 96-109: the checks made before the code is stored
AddSingleCodeCheck(code) ==
    LET c == Strip(code)
    IN IF Length(c) = 0 THEN "Empty code"
       ELSE IF Length(c) < MinCodeLength THEN "Code too short"
       ELSE "none"

\* add_single_code lines 82-141; outcome is what add_stock_code does: it
\* returns the id of the new row, returns None, or raises
AddSingleCode(code, outcome) ==
    /\ Len(added) < MaxCodes
    /\ LET error == AddSingleCodeCheck(code)
       IN IF error # "none"
          THEN /\ addResult' = [NoAddResult EXCEPT !.op = "add_single_code",
                                                   !.error = error]
               /\ UNCHANGED added
          ELSE IF outcome = "id"
          THEN /\ added' = Append(added, Strip(code))
               /\ addResult' = [NoAddResult EXCEPT !.op = "add_single_code",
                                                   !.success = TRUE,
                                                   !.stock_id = Len(added) + 1]
          ELSE /\ addResult' = [NoAddResult EXCEPT
                                   !.op = "add_single_code",
                                   !.error = IF outcome = "none"
                                             THEN "Failed to add code to database"
                                             ELSE "exception"]
               /\ UNCHANGED added
    /\ UNCHANGED <<balance, balance0, whVars, omVars, dhVars>>

\* validate_stock_code as an operation of its own: nothing calls it
ValidateCode(code) ==
    /\ addResult' = [NoAddResult EXCEPT !.op = "validate_stock_code",
                                        !.success = (ValidateStockCode(code) = "none"),
                                        !.error = ValidateStockCode(code)]
    /\ UNCHANGED <<balance, balance0, whVars, omVars, dhVars, added>>

(***************************************************************************)
(* Initial states and specifications                                       *)
(***************************************************************************)

InitOrdersEmpty ==
    /\ orders = [o \in OrderIds |-> NoOrder]
    /\ stock = [i \in StockIds |-> [is_available |-> TRUE, reserved_for_order |-> 0]]
    /\ co = [t \in Creators |-> IdleCreate]
    /\ po = [c \in Callers |-> IdleProcess]
    /\ sweep = IdleSweep
    /\ result = NoResult
    /\ calls = 0
    /\ held = [o \in OrderIds |-> {}]
    /\ paid = [o \in OrderIds |-> [debited |-> 0, refunded |-> 0]]

InitWebhookIdle ==
    /\ wh = [t \in WebhookThreads |-> IdleThread]
    /\ deliveries = 0
    /\ credits = [o \in WebhookIds |-> 0]
    /\ handled = {}
    /\ last = NoAnswer
    /\ events = [o \in WebhookIds |-> {}]

\* the webhook server alone: an opening balance, each top-up created by the
\* top-up command (a Pending row) or not, the amount of each top-up
InitWebhook ==
    /\ balance0 \in [Users -> 0..MaxBalance]
    /\ balance = balance0
    /\ topups \in [WebhookIds -> {"none", "pending"}]
    /\ \A o \in WebhookIds \ TopupIds : topups[o] = "none"
    /\ amountOf \in [WebhookIds -> 1..MaxAmount]
    /\ \A o \in WebhookIds \ TopupIds : amountOf[o] = 1
    /\ InitWebhookIdle
    /\ InitOrdersEmpty
    /\ InitDeliveryIdle
    /\ InitStockManagerIdle

NextWebhook ==
    \/ \E t \in WebhookThreads, req \in TopupRequests : Receive(t, req)
    \/ \E t \in WebhookThreads : TopupCreate(t)
    \/ \E t \in WebhookThreads : TopupCredit(t)
    \/ \E t \in WebhookThreads : TopupMark(t)
    \/ Crash

SpecWebhook == InitWebhook /\ [][NextWebhook]_vars

\* the endpoint with every request it can be sent: bodies without JSON,
\* rejected notifications, ids of any shape, every status
InitEndpoint ==
    /\ balance0 = [u \in Users |-> 0]
    /\ balance = balance0
    /\ topups \in [WebhookIds -> {"none", "pending"}]
    /\ \A o \in WebhookIds \ TopupIds : topups[o] = "none"
    /\ amountOf = [o \in WebhookIds |-> 1]
    /\ InitWebhookIdle
    /\ InitOrdersEmpty
    /\ InitDeliveryIdle
    /\ InitStockManagerIdle

\* a body without JSON has no fields to tell it from another such body
NoJsonRequest ==
    [json |-> FALSE, valid |-> FALSE, order_id |-> <<"TOPUP", "1">>, status |-> "pending"]

EndpointRequests == {req \in Requests : req.json} \cup {NoJsonRequest}

NextEndpoint ==
    \/ \E t \in WebhookThreads, req \in EndpointRequests : Receive(t, req)
    \/ \E t \in WebhookThreads : TopupCreate(t)
    \/ \E t \in WebhookThreads : TopupCredit(t)
    \/ \E t \in WebhookThreads : TopupMark(t)

SpecEndpoint == InitEndpoint /\ [][NextEndpoint]_vars

\* deliver_with_retry alone, called with every cap and without one, for an
\* order that is stored and for one that is not
InitRetry ==
    /\ balance0 = [u \in Users |-> 0]
    /\ balance = balance0
    /\ topups = [o \in WebhookIds |-> "none"]
    /\ amountOf = [o \in WebhookIds |-> 1]
    /\ InitWebhookIdle
    /\ InitOrdersEmpty
    /\ InitDeliveryIdle
    /\ InitStockManagerIdle

RecordOutcomes == {"inserted", "raised"}

DeliverReturns ==
    \E outcome \in {"success", "failure"}, rec \in RecordOutcomes :
        DeliverAttempt(outcome, rec)

DeliverRecords == \E rec \in RecordOutcomes : DeliverGiveUp(rec)

NextRetry ==
    \/ \E known \in BOOLEAN, given \in BOOLEAN, n \in 0..MaxAttempts :
          DeliverWithRetry(known, given, n)
    \/ DeliverLoop
    \/ DeliverReturns
    \/ DeliverWake
    \/ DeliverRecords

\* the event loop resumes a coroutine whose await is over; every delivery
\* method returns
SpecRetry ==
    /\ InitRetry
    /\ [][NextRetry]_vars
    /\ WF_vars(DeliverLoop)
    /\ WF_vars(DeliverReturns)
    /\ WF_vars(DeliverWake)
    /\ WF_vars(DeliverRecords)

\* the stock manager alone: codes are added to an empty stock
InitStockManager ==
    /\ balance0 = [u \in Users |-> 0]
    /\ balance = balance0
    /\ topups = [o \in WebhookIds |-> "none"]
    /\ amountOf = [o \in WebhookIds |-> 1]
    /\ InitWebhookIdle
    /\ InitOrdersEmpty
    /\ InitDeliveryIdle
    /\ InitStockManagerIdle

NextStockManager ==
    \/ \E code \in Payloads, outcome \in {"id", "none", "raise"} :
          AddSingleCode(code, outcome)
    \/ \E code \in Payloads : ValidateCode(code)

SpecStockManager == InitStockManager /\ [][NextStockManager]_vars

\* the order manager alone: an opening balance, every stock row Available,
\* no order yet, no webhook traffic
Init ==
    /\ balance0 \in [Users -> 0..MaxBalance]
    /\ balance = balance0
    /\ topups = [o \in WebhookIds |-> "none"]
    /\ amountOf = [o \in WebhookIds |-> 1]
    /\ InitWebhookIdle
    /\ InitOrdersEmpty
    /\ InitDeliveryIdle
    /\ InitStockManagerIdle

Next ==
    \/ \E t \in Creators, u \in Users, p \in PackageKeys, m \in PaymentMethods :
          CreateBegin(t, u, p, m)
    \/ \E t \in Creators : CreateCheckStock(t)
    \/ \E t \in Creators : CreateDeduct(t)
    \/ \E t \in Creators, outcome \in {"ok", "none", "raise"} : CreateOrderRow(t, outcome)
    \/ \E t \in Creators : CreateRefundNoOrder(t)
    \/ \E t \in Creators, S \in SUBSET StockIds, outcome \in {"ok", "raise"} :
          CreateReserve(t, S, outcome)
    \/ \E t \in Creators : CreateRollbackRefund(t)
    \/ \E t \in Creators : CreateRollbackStatus(t)
    \/ \E o \in OrderIds, h \in BOOLEAN : ProcessOrder(o, h)
    \/ \E o \in OrderIds, h \in BOOLEAN : RetryOrderDelivery(o, h)
    \/ \E c \in Callers, outcome \in {"success", "failed", "raised"} :
          ProcessOrderDelivered(c, outcome)
    \/ \E h \in BOOLEAN, n \in 1..MaxSweep : SweepStart(h, n)
    \/ SweepStep
    \/ SweepFinish
    \/ \E o \in OrderIds, r \in BOOLEAN : CancelOrder(o, r)

Spec == Init /\ [][Next]_vars

\* one bot process: create_new_order and cancel_order are plain functions, so
\* on the event loop nothing runs between their statements; process_order
\* and process_pending_orders give way to other calls where they await
\* (the short-reservation rollback of lines 162-174 needs stock to go between
\* the count and the reservation, which cannot happen inside one call here)
Quiet == \A t \in Creators : co[t].pc = "idle"

NextBot ==
    \/ /\ Quiet
       /\ \E t \in Creators, u \in Users, p \in PackageKeys, m \in PaymentMethods :
             CreateBegin(t, u, p, m)
    \/ \E t \in Creators : CreateCheckStock(t)
    \/ \E t \in Creators : CreateDeduct(t)
    \/ \E t \in Creators, outcome \in {"ok", "none", "raise"} : CreateOrderRow(t, outcome)
    \/ \E t \in Creators : CreateRefundNoOrder(t)
    \/ \E t \in Creators, S \in SUBSET StockIds, outcome \in {"ok", "raise"} :
          CreateReserve(t, S, outcome)
    \/ /\ Quiet
       /\ \E o \in OrderIds, h \in BOOLEAN : ProcessOrder(o, h)
    \/ /\ Quiet
       /\ \E o \in OrderIds, h \in BOOLEAN : RetryOrderDelivery(o, h)
    \/ /\ Quiet
       /\ \E c \in Callers, outcome \in {"success", "failed", "raised"} :
             ProcessOrderDelivered(c, outcome)
    \/ /\ Quiet
       /\ \E h \in BOOLEAN, n \in 1..MaxSweep : SweepStart(h, n)
    \/ /\ Quiet
       /\ SweepStep
    \/ /\ Quiet
       /\ SweepFinish
    \/ /\ Quiet
       /\ \E o \in OrderIds, r \in BOOLEAN : CancelOrder(o, r)

SpecBot == Init /\ [][NextBot]_vars

\* one bot process that starts with an order already in the database: an
\* earlier create_new_order call made order 1 for the package of one code,
\* debited its price and reserved row 1 for it
InitPending ==
    /\ balance0 \in [Users -> 0..MaxBalance]
    /\ balance = balance0
    /\ topups = [o \in WebhookIds |-> "none"]
    /\ amountOf = [o \in WebhookIds |-> 1]
    /\ InitWebhookIdle
    /\ orders = CreateOrder([o \in OrderIds |-> NoOrder], 1, "1_code",
                           PACKAGE_CONFIG["1_code"].quantity,
                           PACKAGE_CONFIG["1_code"].price, "balance")
    /\ stock = ReserveStockCodes([i \in StockIds |->
                                    [is_available |-> TRUE, reserved_for_order |-> 0]],
                                1, {1})
    /\ co = [t \in Creators |-> IdleCreate]
    /\ po = [c \in Callers |-> IdleProcess]
    /\ sweep = IdleSweep
    /\ result = NoResult
    /\ calls = 0
    /\ held = [o \in OrderIds |-> IF o = 1 THEN {1} ELSE {}]
    /\ paid = [o \in OrderIds |->
                 [debited |-> IF o = 1 THEN PACKAGE_CONFIG["1_code"].price ELSE 0,
                  refunded |-> 0]]
    /\ InitDeliveryIdle
    /\ InitStockManagerIdle

SpecPending == InitPending /\ [][NextBot]_vars

\* the bot with its periodic sweep: every order is Pending and holds a stock
\* row of its own; the admin processes and cancels orders, the sweep runs
\* again and again
InitPeriodic ==
    /\ balance0 = [u \in Users |-> 0]
    /\ balance = balance0
    /\ topups = [o \in WebhookIds |-> "none"]
    /\ amountOf = [o \in WebhookIds |-> 1]
    /\ InitWebhookIdle
    /\ orders = [o \in OrderIds |->
                   IF o \in StockIds
                   THEN [status |-> "pending", delivery_status |-> "pending",
                         user_id |-> 1, package_type |-> "1_code",
                         code_quantity |-> PACKAGE_CONFIG["1_code"].quantity,
                         total_price |-> PACKAGE_CONFIG["1_code"].price,
                         payment_method |-> "balance"]
                   ELSE NoOrder]
    /\ stock = [i \in StockIds |->
                  [is_available |-> TRUE,
                   reserved_for_order |-> IF i \in OrderIds THEN i ELSE 0]]
    /\ co = [t \in Creators |-> IdleCreate]
    /\ po = [c \in Callers |-> IdleProcess]
    /\ sweep = IdleSweep
    /\ result = NoResult
    /\ calls = 0
    /\ held = [o \in OrderIds |-> IF o \in StockIds THEN {o} ELSE {}]
    /\ paid = [o \in OrderIds |->
                 [debited |-> IF o \in StockIds THEN PACKAGE_CONFIG["1_code"].price ELSE 0,
                  refunded |-> 0]]
    /\ InitDeliveryIdle
    /\ InitStockManagerIdle

NextPeriodic ==
    \/ CheckPendingOrders
    \/ SweepStep
    \/ SweepDelivered
    \/ SweepFinish
    \/ \E o \in OrderIds, h \in BOOLEAN : ProcessOrder(o, h)
    \/ \E outcome \in {"success", "failed", "raised"} :
          ProcessOrderDelivered("direct", outcome)
    \/ \E o \in OrderIds, r \in BOOLEAN : CancelOrder(o, r)

\* the task loop runs the sweep every five minutes; the event loop resumes a
\* coroutine whose await is over; the delivery handler returns
SpecPeriodic ==
    /\ InitPeriodic
    /\ [][NextPeriodic]_vars
    /\ WF_vars(CheckPendingOrders)
    /\ WF_vars(SweepStep)
    /\ WF_vars(SweepDelivered)
    /\ WF_vars(SweepFinish)

(***************************************************************************)
(* Top-up credit: idempotence                                              *)
(***************************************************************************)

RECURSIVE SumOver(_, _)
SumOver(f, S) ==
    IF S = {} THEN 0
    ELSE LET x == CHOOSE y \in S : TRUE IN f[x] + SumOver(f, S \ {x})

\* what the top-ups of user u have added to the balance
Credited(u) ==
    SumOver([o \in TopupIds |-> credits[o] * amountOf[o]],
            {o \in TopupIds : IntOf[o[2]] = u})

AllIdle == \A t \in WebhookThreads : ~Busy(t)

\* C1: when only success notifications of a top-up arrive, one after another
\* and each handled to its end, the balance is the opening balance plus the
\* amount once for every top-up credited, no top-up is credited twice, and a
\* top-up whose notification was answered is credited once and has status
\* 'success', which later deliveries keep.
C1_IdempotentCredit ==
    /\ \A u \in Users : balance[u] = balance0[u] + Credited(u)
    /\ \A o \in TopupIds :
          events[o] = {} =>
             /\ credits[o] <= 1
             /\ o \in handled => credits[o] = 1 /\ topups[o] = "success"

\* two or more deliveries of the success notification of one top-up, all answered
C1_Witness ==
    /\ AllIdle
    /\ deliveries >= 2
    /\ \A o \in TopupIds : events[o] = {}
    /\ \E o \in TopupIds : handled = {o} /\ credits[o] = 1
    /\ \A u \in Users : balance[u] = balance0[u] + Credited(u) /\ Credited(u) > 0

\* C2: whatever statuses the notifications of one top-up carry and in whatever
\* order they arrive (handled one after another, no crash), the top-up is
\* credited at most once.
C2_AtMostOnceAnyStatus ==
    \A o \in TopupIds :
       events[o] \subseteq {"nonsuccess"} => credits[o] <= 1

\* C3: a crash between add_balance and the status write, followed by a
\* redelivery of the same success notification, credits the top-up once.
C3_CrashRecoverable ==
    \A o \in TopupIds :
       events[o] \subseteq {"crash"} => credits[o] <= 1

\* C4: two deliveries of the success notification of one top-up handled by
\* two threads at once credit the top-up once.
C4_ConcurrentOnce ==
    \A o \in TopupIds :
       events[o] \subseteq {"overlap"} => credits[o] <= 1

(***************************************************************************)
(* Orders: balance, reservations, compensation, terminal states            *)
(***************************************************************************)

\* the codes the orders hold, counted order by order
TotalHeld == SumOver([o \in OrderIds |-> Cardinality(held[o])], OrderIds)

\* C5: however concurrent create_new_order calls interleave their balance
\* read, their deduct_balance and their refunds, no account balance is ever
\* negative: a deduction succeeds only against a balance that covers it.
C5_NoOverdraft ==
    \A u \in Users : balance[u] >= 0

\* two calls passed the balance check on the same balance; the deduction of one
\* succeeded and emptied the account, the deduction of the other was refused
C5_Witness ==
    /\ result.op = "create_new_order"
    /\ result.error = "deduct_failed"
    /\ \E t \in Creators : co[t].deducted /\ balance[co[t].user_id] < BulkPrice
    /\ \A u \in Users : balance[u] >= 0 /\ balance[u] < balance0[u]

\* C6: however concurrent create_new_order calls interleave, the codes held
\* by all orders together never outnumber the pool, no code is held by two
\* orders, and a code an order holds is Reserved for that order in the table.
C6_NoDoubleReservation ==
    /\ TotalHeld <= Cardinality(StockIds)
    /\ \A o1, o2 \in OrderIds : o1 # o2 => held[o1] \cap held[o2] = {}
    /\ \A o \in OrderIds : \A i \in held[o] :
          Reserved(stock, i) /\ stock[i].reserved_for_order = o

\* two calls reserved against the same pool: the first got its codes, the
\* second came back short, and together they hold the whole pool
C6_Witness ==
    /\ \A o \in OrderIds : held[o] # {}
    /\ TotalHeld = Cardinality(StockIds)
    /\ \E t \in Creators : co[t].pc = "rollback_refund"
                           /\ Cardinality(held[co[t].order_id]) < Quantity(co[t])

\* C7: a create_new_order call that returns success=false after its
\* deduct_balance returned True has put back what it took, on every path to
\* the failure, the exception handler included.
C7_CompensationRestoresBalance ==
    (result.op = "create_new_order" /\ ~result.success /\ result.deducted)
       => result.taken = 0

\* C8: when create_new_order has returned success=false for an order it
\* created, no code is left Reserved for that order: what the short
\* reservation claimed is Available again.
C8_NoReservationForFailedOrder ==
    (result.op = "create_new_order" /\ ~result.success /\ result.order_id # 0)
       => GetReservedCodes(stock, result.order_id) = {}

\* C9: once an order is Completed or Cancelled, no step of process_order,
\* retry_order_delivery, cancel_order or process_pending_orders changes its
\* status or a stock row that refers to it.
C9_TerminalImmutable ==
    [][\A o \in OrderIds :
          (orders[o].status \in {"completed", "cancelled"} /\ co' = co) =>
             /\ orders'[o].status = orders[o].status
             /\ \A i \in StockIds :
                   stock[i].reserved_for_order = o => stock'[i] = stock[i]]_vars

\* C10: for every order, what was debited for it is its total price, and what
\* was refunded for it is nothing or its total price once: never more.
C10_NetDebit ==
    \A o \in OrderIds :
       orders[o].status # "none" =>
          /\ paid[o].debited = orders[o].total_price
          /\ paid[o].refunded \in {0, orders[o].total_price}

(***************************************************************************)
(* Orders and their reserved stock                                         *)
(***************************************************************************)

\* the orders a create_new_order call has inserted and not yet returned from
InCreation == {co[t].order_id : t \in Creators} \ {0}

\* C11: every Pending order that no create_new_order call is still working
\* on has exactly as many stock rows reserved for it as its quantity
C11_PendingHoldsQuantity ==
    \A o \in OrderIds \ InCreation :
        orders[o].status = "pending" =>
            Cardinality(GetReservedCodes(stock, o)) = orders[o].code_quantity

(***************************************************************************)
(* The webhook endpoint: rejected, non-success and malformed notifications *)
(***************************************************************************)

\* C12: a notification that fails verification is answered at once and has
\* no effect: no balance changes, no top-up row is created, no status changes
C12_InvalidHasNoEffect ==
    [][\A t \in WebhookThreads, req \in Requests :
          (req.json /\ ~req.valid /\ Receive(t, req)) =>
              /\ balance' = balance
              /\ topups' = topups
              /\ credits' = credits
              /\ ~Busy(t)']_vars

\* a rejected notification for a Pending top-up has been answered
C12_Witness ==
    /\ last.resp # 0
    /\ last.req.json /\ ~last.req.valid
    /\ last.req.order_id \in TopupIds
    /\ last.req.status = "success"
    /\ topups[last.req.order_id] = "pending"

C14_MalformedIdRejected ==
    [][\A t \in WebhookThreads, req \in EndpointRequests :
          (req.json /\ req.valid /\ req.status = "success"
              /\ (Len(req.order_id) < 3 \/ req.order_id[2] \notin DOMAIN IntOf)
              /\ Receive(t, req)) =>
              /\ last' = Answer(req, 200, "false")
              /\ balance' = balance
              /\ credits' = credits
              /\ topups' = topups
              /\ ~Busy(t)']_vars

\* a success notification with a two-part id has been refused while the
\* user's top-up rows are Pending: they stay Pending and nothing is credited
C14_Witness ==
    /\ last.resp # 0
    /\ last.req.json /\ last.req.valid /\ last.req.status = "success"
    /\ Len(last.req.order_id) < 3
    /\ last.ret = "false"
    /\ \A o \in TopupIds : topups[o] = "pending"
    /\ balance = balance0

\* C15: every request whose body is JSON is answered 200, a rejected
\* notification included; only a body that is not JSON is answered 400
C15_Always200ForJson ==
    last.resp # 0 =>
        IF last.req.json THEN last.resp = 200 ELSE last.resp = 400

(***************************************************************************)
(* create_new_order, process_order, cancel_order: what one call does       *)
(***************************************************************************)

\* C16: a create_new_order call that returns success has lowered the user's
\* balance by exactly the price, has reserved for the new order exactly
\* quantity rows that were Available, and leaves the order Pending.  Step by
\* step in one bot process: nothing else runs while the call is in progress,
\* its debit step takes the price, no other step of a call that goes on to
\* succeed touches a balance, and its last step reserves the rows
C16_CreateSuccess ==
    [][\A t \in Creators :
          LET f == co[t]
              o == f.order_id
              S == GetReservedCodes(stock', o)
              returnsSuccess == co'[t].pc = "idle" /\ result'.success
          IN  /\ f.pc # "idle" => co'[t] # f
              /\ (f.pc = "deduct" /\ co'[t].pc = "create_order") =>
                    balance' = [balance EXCEPT ![f.user_id] = @ - Price(f)]
              /\ (f.pc \in {"check_stock", "create_order"} /\ co'[t].pc # "idle") =>
                    balance' = balance
              /\ (f.pc = "reserve" /\ returnsSuccess) =>
                    /\ balance' = balance
                    /\ result'.op = "create_new_order"
                    /\ result'.order_id = o
                    /\ result'.taken = Price(f)
                    /\ Cardinality(S) = Quantity(f)
                    /\ \A i \in S : Available(stock, i)
                    /\ \A i \in StockIds \ S : stock'[i] = stock[i]
                    /\ orders'[o].status = "pending"
                    /\ orders'[o].code_quantity = Quantity(f)
                    /\ orders'[o].total_price = Price(f)]_vars

\* a second order has been created while the first one, still Pending, holds
\* its row; the balance is lower by the two prices
C16_Witness ==
    /\ result.op = "create_new_order" /\ result.success
    /\ result.order_id = 2
    /\ Cardinality(GetReservedCodes(stock, 1)) = 1
    /\ orders[1].status = "pending"
    /\ orders[2].status = "pending"
    /\ balance[1] = balance0[1] - orders[1].total_price - orders[2].total_price

\* C17: process_order with a delivery handler that reports success: the call
\* takes the rows reserved for the order without changing anything before
\* the handler runs, and when it returns every one of those rows is
\* Consumed, the order is Completed with delivery status 'delivered', no
\* balance has changed and the call reports success and delivery
C17_DeliveredConsumes ==
    [][\A c \in Callers :
          /\ (po[c].pc = "idle" /\ po'[c].pc = "delivering") =>
                /\ po'[c].codes = GetReservedCodes(stock, po'[c].order_id)
                /\ po'[c].codes # {}
                /\ UNCHANGED <<balance, stock, orders>>
          /\ (po[c].pc = "delivering" /\ po'[c].pc = "idle" /\ result'.success) =>
                /\ \A i \in po[c].codes : Consumed(stock', i)
                /\ \A i \in StockIds \ po[c].codes : stock'[i] = stock[i]
                /\ orders'[po[c].order_id].status = "completed"
                /\ orders'[po[c].order_id].delivery_status = "delivered"
                /\ \A o \in OrderIds \ {po[c].order_id} : orders'[o] = orders[o]
                /\ balance' = balance
                /\ result'.order_id = po[c].order_id
                /\ result'.delivered]_vars

\* the bulk order, created and then processed with a successful delivery:
\* both its rows are Consumed and the balance is still the price lower
C17_Witness ==
    /\ calls = 2
    /\ result.op = "process_order" /\ result.success /\ result.delivered
    /\ orders[result.order_id].status = "completed"
    /\ orders[result.order_id].code_quantity = BulkQuantity
    /\ Cardinality({i \in StockIds : Consumed(stock, i)}) = BulkQuantity
    /\ balance[1] = balance0[1] - BulkPrice

\* C18: process_order with a delivery handler that reports a failure or
\* raises: when the call returns the order is Pending with delivery status
\* 'delivery_failed', no stock row has changed (the rows reserved for the
\* order stay reserved for it), no balance has changed, and the call reports
\* success = false
C18_DeliveryFailureKeepsOrder ==
    [][\A c \in Callers :
          (po[c].pc = "delivering" /\ po'[c].pc = "idle" /\ ~result'.delivered) =>
              /\ orders'[po[c].order_id].status = "pending"
              /\ orders'[po[c].order_id].delivery_status = "delivery_failed"
              /\ \A o \in OrderIds \ {po[c].order_id} : orders'[o] = orders[o]
              /\ stock' = stock
              /\ GetReservedCodes(stock', po[c].order_id) =
                    GetReservedCodes(stock, po[c].order_id)
              /\ balance' = balance
              /\ result'.order_id = po[c].order_id
              /\ ~result'.success]_vars

\* an order created and then processed with a delivery that failed: it is
\* Pending, its row is still reserved for it, the balance is the price lower
C18_Witness ==
    /\ calls = 2
    /\ result.op = "process_order" /\ ~result.success
    /\ result.error = "delivery_failed"
    /\ orders[result.order_id].status = "pending"
    /\ orders[result.order_id].delivery_status = "delivery_failed"
    /\ Cardinality(GetReservedCodes(stock, result.order_id))
          = orders[result.order_id].code_quantity
    /\ balance[1] = balance0[1] - orders[result.order_id].total_price

\* C19: process_order and retry_order_delivery on a Completed order return
\* success = true at once, each time they are called: the delivery handler
\* is not awaited and no order, stock row or balance changes.  The sweep's
\* own process_order call on an order that was completed meanwhile does the
\* same
C19_CompletedIsNoOp ==
    [][/\ \A o \in OrderIds, h \in BOOLEAN :
             (orders[o].status = "completed"
                 /\ (ProcessOrder(o, h) \/ RetryOrderDelivery(o, h))) =>
                 /\ result'.success
                 /\ result'.order_id = o
                 /\ po' = po
                 /\ UNCHANGED <<orders, stock, balance, held, paid>>
       /\ (sweep.pc = "loop" /\ sweep.queue # <<>>
              /\ orders[Head(sweep.queue)].status = "completed" /\ SweepStep) =>
                 /\ result'.success
                 /\ po' = po
                 /\ UNCHANGED <<orders, stock, balance, held, paid>>]_vars

\* an order was created and delivered, and the third call is a
\* retry_order_delivery on it that returned through the already-completed
\* branch (success without a delivery): the order is still Completed, its
\* rows Consumed, the balance the price lower
C19_Witness ==
    /\ calls = 3
    /\ result.op = "retry_order_delivery" /\ result.success /\ ~result.delivered
    /\ orders[result.order_id].status = "completed"
    /\ orders[result.order_id].delivery_status = "delivered"
    /\ Cardinality({i \in StockIds : Consumed(stock, i)})
          = orders[result.order_id].code_quantity
    /\ \A o \in OrderIds \ {result.order_id} : orders[o].status = "none"
    /\ balance[1] = balance0[1] - orders[result.order_id].total_price

C21_StockUnavailable ==
    (result.op = "create_new_order"
        /\ result.error \in {"insufficient_stock", "reserve_short"}) =>
        /\ ~result.success
        /\ result.taken = 0
        /\ result.error = "insufficient_stock" =>
              (result.order_id = 0 /\ ~result.deducted)
        /\ result.error = "reserve_short" =>
              /\ result.order_id # 0
              /\ orders[result.order_id].status = "failed"
              /\ orders[result.order_id].delivery_status = "stock_unavailable"
              /\ paid[result.order_id].refunded >= paid[result.order_id].debited

\* the reservation of a call came up short after a concurrent reservation:
\* its order is Failed and the balance is the opening balance less the price
\* of the other order
C21_Witness ==
    /\ result.op = "create_new_order"
    /\ result.error = "reserve_short"
    /\ orders[result.order_id].status = "failed"
    /\ \E o \in OrderIds \ {result.order_id} :
          /\ orders[o].status = "pending"
          /\ balance[1] = balance0[1] - orders[o].total_price
    /\ Quiet

\* the status transitions the order life cycle allows
AllowedTransitions ==
    {<<"pending", "completed">>, <<"pending", "failed">>,
     <<"pending", "cancelled">>, <<"failed", "pending">>}

\* C22: every change of the status of an existing order is one of
\* Pending -> Completed, Pending -> Failed, Pending -> Cancelled and
\* Failed -> Pending
C22_OnlyAllowedTransitions ==
    [][\A o \in OrderIds :
          (orders[o].status # "none" /\ orders'[o].status # orders[o].status) =>
              <<orders[o].status, orders'[o].status>> \in AllowedTransitions]_vars

\* C23: a stock row that is reserved for an order becomes Consumed only in
\* the step in which the delivery handler has returned success for that
\* very order
C23_ConsumedOnlyAfterDelivery ==
    [][\A i \in StockIds :
          (Reserved(stock, i) /\ Consumed(stock', i)) =>
              /\ result'.success /\ result'.delivered
              /\ result'.order_id = stock[i].reserved_for_order]_vars

\* C24: validate_order_request changes no state: in every step of the
\* validation, whether it ends valid or invalid, the balances, the orders
\* and every stock row stay as they were
C24_ValidationReadOnly ==
    [][\A t \in Creators :
          \/ ~(co[t].pc \in {"idle", "check_stock"})
          \/ ~(\/ CreateCheckStock(t)
               \/ \E u \in Users, p \in PackageKeys, m \in PaymentMethods :
                     CreateBegin(t, u, p, m))
          \/ UNCHANGED <<balance, orders, stock, held, paid>>]_vars

\* a request was refused for its balance, and a later one has passed the
\* validation while an earlier order holds a row: nothing but that order's
\* debit and row has changed
C24_Witness ==
    /\ \E t \in Creators : co[t].pc = "deduct"
    /\ calls = 3
    /\ orders[1].status = "pending"
    /\ orders[2].status = "none"
    /\ Cardinality(GetReservedCodes(stock, 1)) = orders[1].code_quantity
    /\ balance[1] = balance0[1] - orders[1].total_price

\* C25: an order that is Pending after a failed delivery and holds its rows
\* stays Pending, keeps exactly those rows and is not refunded in every
\* step that is neither a cancel_order call on it nor the return of a
\* successful delivery: no run of process_order or process_pending_orders
\* with a failing delivery, and no other call, cancels it, refunds it or
\* takes its stock
C25_NoAutoCancel ==
    [][\A o \in OrderIds :
          (/\ orders[o].status = "pending"
           /\ orders[o].delivery_status = "delivery_failed"
           /\ Cardinality(GetReservedCodes(stock, o)) = orders[o].code_quantity
           /\ ~(\E c \in Callers : po[c].pc = "delivering" /\ po'[c].pc = "idle"
                                        /\ result'.delivered)
           /\ ~(\E r \in BOOLEAN : CancelOrder(o, r))) =>
              /\ orders'[o].status = "pending"
              /\ GetReservedCodes(stock', o) = GetReservedCodes(stock, o)
              /\ paid'[o].refunded = paid[o].refunded]_vars

\* an order was created, a delivery of it failed, and a further run is
\* waiting for its delivery handler: the order is Pending with
\* 'delivery_failed', holds its rows and has not been refunded
C25_Witness ==
    /\ calls = 3
    /\ \E c \in Callers :
          /\ po[c].pc = "delivering"
          /\ po[c].order_id = 1
    /\ orders[1].status = "pending"
    /\ orders[1].delivery_status = "delivery_failed"
    /\ orders[2].status = "none"
    /\ Cardinality(GetReservedCodes(stock, 1)) = orders[1].code_quantity
    /\ paid[1].refunded = 0
    /\ balance[1] = balance0[1] - orders[1].total_price

(***************************************************************************)
(* The periodic sweep                                                      *)
(***************************************************************************)
\* the orders a run of process_pending_orders has counted, is processing and
\* has still to process
SweepOutstanding(sw, p) ==
    sw.processed + Len(sw.queue) + (IF p["sweep"].pc = "idle" THEN 0 ELSE 1)

\* C26: a run of process_pending_orders(handler, max_orders) selects at most
\* max_orders orders, all of them Pending and not 'delivered' when the run
\* starts, in ascending order of creation; it calls process_order on the head
\* of the list only when its previous call has returned, on no other order,
\* and the counters it returns satisfy processed = success + failed, processed
\* being the number of orders selected
C26_SweepRun ==
    [][/\ \A h \in BOOLEAN, n \in 1..MaxSweep :
             (sweep.pc = "idle" /\ SweepStart(h, n)) =>
                 /\ Len(sweep'.queue) <= n
                 /\ SweepOutstanding(sweep', po') = Len(sweep'.queue)
                 /\ \A k \in 1..Len(sweep'.queue) :
                       /\ orders[sweep'.queue[k]].status = "pending"
                       /\ orders[sweep'.queue[k]].delivery_status # "delivered"
                       /\ \A j \in 1..(k - 1) : sweep'.queue[j] < sweep'.queue[k]
       /\ (sweep.pc = "loop" /\ sweep'.pc = "loop") =>
                 /\ SweepOutstanding(sweep', po') = SweepOutstanding(sweep, po)
                 /\ sweep'.processed = sweep'.succeeded + sweep'.failed
                 /\ \/ sweep'.queue = sweep.queue
                    \/ /\ sweep.queue # <<>>
                       /\ sweep'.queue = Tail(sweep.queue)
                       /\ po["sweep"].pc = "idle"
                       /\ \/ /\ po'["sweep"].pc # "idle"
                             /\ po'["sweep"].order_id = Head(sweep.queue)
                          \/ /\ po'["sweep"].pc = "idle"
                             /\ result'.order_id = Head(sweep.queue)
                             /\ sweep'.processed = sweep.processed + 1
                 /\ (po["sweep"].pc = "idle" /\ po'["sweep"].pc # "idle") =>
                       sweep'.queue # sweep.queue
       /\ (sweep.pc = "loop" /\ sweep'.pc = "idle") =>
                 /\ result'.op = "process_pending_orders"
                 /\ result'.processed = SweepOutstanding(sweep, po)
                 /\ result'.processed = result'.succeeded + result'.failed]_vars

\* two orders are Pending and a run with max_orders = 1 has returned: it
\* processed the older order only, whose delivery failed
C26_Witness ==
    /\ calls = 3
    /\ result.op = "process_pending_orders"
    /\ result.processed = 1
    /\ result.failed = 1
    /\ orders[1].status = "pending"
    /\ orders[1].delivery_status = "delivery_failed"
    /\ orders[2].status = "pending"
    /\ orders[2].delivery_status = "pending"
    /\ Quiet

(***************************************************************************)
(* Delivery with retry                                                     *)
(***************************************************************************)
\* the sleeps of a call whose first n attempts failed and were followed by
\* another attempt: 5, 10, ..., 5 * n seconds
Backoff(n) == [k \in 1..n |-> k * BackoffSeconds]

\* the steps of a deliver_with_retry call with a cap of 1 at least: a
\* successful attempt returns success with the number of invocations made, the
\* earlier ones having each been followed by its sleep; a failed attempt is
\* followed by a sleep of 5 * k seconds when it is the k-th and not the last,
\* and by none when it is the last; when the call gives up it has invoked the
\* method max_attempts times and returns a failure with attempts = max_attempts;
\* no other step adds a failed delivery
RetrySteps ==
    /\ (dr.pc = "deliver" /\ dr'.pc = "idle") =>
          /\ dresult'.success
          /\ dresult'.attempts = dr.invoked
          /\ dr.waits = Backoff(dr.invoked - 1)
    /\ (dr.pc = "deliver" /\ dr'.pc = "sleep") =>
          /\ dr.invoked < dr.max_attempts
          /\ dr'.waits = Append(dr.waits, dr.invoked * BackoffSeconds)
    /\ (dr.pc = "deliver" /\ dr'.pc = "loop") =>
          /\ dr.invoked = dr.max_attempts
          /\ dr'.waits = dr.waits
    /\ (dr.pc = "record" /\ dr'.pc = "idle") =>
          /\ dresult'.returned = "value"
          /\ ~dresult'.success
          /\ dresult'.attempts = dr.max_attempts
          /\ dr.invoked = dr.max_attempts
          /\ dr.waits = Backoff(dr.max_attempts - 1)
          /\ dtable'.success = dtable.success
    /\ dr.pc # "record" => dtable'.failed = dtable.failed

\* C27, as amended: for every cap max_attempts >= 1, deliver_with_retry invokes
\* the delivery method at most max_attempts times and then terminates; it
\* returns success with the attempt count at the first attempt that succeeds,
\* waits 5 * k seconds after the k-th failed attempt before the next one (no
\* wait after the last), and after max_attempts failures returns success =
\* false with attempts = max_attempts and calls record_delivery once, which
\* adds one failed delivery when the order is stored and the insert does not
\* raise, and none otherwise
C27_RetryBounded ==
    /\ [](dr.invoked <= dr.max_attempts)
    /\ (dr.pc # "idle") ~> (dr.pc = "idle")
    /\ [][/\ RetrySteps
          /\ \A rec \in RecordOutcomes :
                DeliverGiveUp(rec) =>
                    dtable'.failed = dtable.failed
                        + (IF dr.known /\ rec = "inserted" THEN 1 ELSE 0)]_vars

\* C27, as stated: ... and after max_attempts failures records exactly one
\* failed delivery
C27_RecordsOneFailure ==
    /\ [](dr.invoked <= dr.max_attempts)
    /\ (dr.pc # "idle") ~> (dr.pc = "idle")
    /\ [][/\ RetrySteps
          /\ (dr.pc = "record" /\ dr'.pc = "idle") =>
                dtable'.failed = dtable.failed + 1]_vars

\* one call, without a cap of its own, for a stored order: the three attempts
\* of the configuration failed, and one failed delivery was recorded
C27_Witness ==
    /\ dcalls = 1
    /\ dr.pc = "idle"
    /\ dresult.returned = "value"
    /\ ~dresult.success
    /\ dresult.attempts = DELIVERY_RETRY_ATTEMPTS
    /\ dtable.failed = 1
    /\ dtable.success = 0

(***************************************************************************)
(* Adding a code                                                           *)
(***************************************************************************)
\* C28: add_single_code rejects, without adding anything to the stock, every
\* payload whose stripped length is below 5 or above 500; it accepts the
\* payloads of length 5 to 500, which are stored when add_stock_code returns
\* the id of the new row
C28_LengthLimits ==
    [][\A code \in Payloads, outcome \in {"id", "none", "raise"} :
          AddSingleCode(code, outcome) =>
              IF Length(Strip(code)) < MinCodeLength
                    \/ Length(Strip(code)) > MaxCodeLength
              THEN /\ ~addResult'.success
                   /\ added' = added
              ELSE outcome = "id" =>
                      /\ addResult'.success
                      /\ added' = Append(added, Strip(code))]_vars

(***************************************************************************)
(* stock_manager.py: the stock summary                                     *)
(***************************************************************************)
\* add_single_code line 82: code_type = 'redfinger'; the rows of the model are
\* of this type
CodeTypes == {"redfinger"}

CodeType(i) == "redfinger"

\* a row counted as available without the test of its reservation
SummaryAvailableUnreserved(st, i) == st[i].is_available

\* get_stock_summary lines 414 and 425: is_available AND reserved_for_order IS NULL
SummaryAvailable(st, i) == st[i].is_available /\ st[i].reserved_for_order = 0

\* lines 415 and 426: reserved_for_order IS NOT NULL
SummaryReserved(st, i) == st[i].reserved_for_order # 0

\* lines 416 and 427: is_available = FALSE
SummaryUsed(st, i) == ~st[i].is_available

\* get_stock_summary lines 398-455: the counts of each code type
GetStockSummary(st) ==
    [t \in CodeTypes |->
        LET rows == {i \in StockIds : CodeType(i) = t}
        IN [total |-> Cardinality(rows),
            available |-> Cardinality({i \in rows : SummaryAvailable(st, i)}),
            reserved |-> Cardinality({i \in rows : SummaryReserved(st, i)}),
            used |-> Cardinality({i \in rows : SummaryUsed(st, i)})]]

\* get_detailed_stock_stats lines 465-478: the totals over the code types
GetDetailedStockStats(st) ==
    LET summary == GetStockSummary(st)
    IN [total |-> SumOver([t \in CodeTypes |-> summary[t].total], CodeTypes),
        available |-> SumOver([t \in CodeTypes |-> summary[t].available], CodeTypes),
        reserved |-> SumOver([t \in CodeTypes |-> summary[t].reserved], CodeTypes),
        used |-> SumOver([t \in CodeTypes |-> summary[t].used], CodeTypes)]

C30_NoDeliveryAfterRefund ==
    [][\A o \in OrderIds :
          paid[o].refunded > 0 =>
              /\ ~(orders[o].status # "completed" /\ orders'[o].status = "completed")
              /\ \A c \in Callers :
                    ~(/\ po[c].pc # "delivering"
                      /\ po'[c].pc = "delivering"
                      /\ po'[c].order_id = o)]_vars

(***************************************************************************)
(* Concurrent deliveries                                                   *)
(***************************************************************************)
\* C31: no code is handed to the delivery handler for two different orders;
\* in particular no process_order call hands a code to the handler for one
\* order while another call is waiting for the handler to deliver the same
\* code for another order
C31_NoCodeForTwoOrders ==
    [][\A c, d \in Callers :
          (/\ c # d
           /\ po[c].pc # "delivering"
           /\ po'[c].pc = "delivering"
           /\ po[d].pc = "delivering"
           /\ po[d].order_id # po'[c].order_id) =>
              po'[c].codes \cap po[d].codes = {}]_vars

\* C32: when process_order runs for the same Pending order from two entry
\* points at once, the delivery handler succeeds for the order at most once:
\* no delivery succeeds for an order that a delivery has already completed
C32_DeliveredOnce ==
    [][\A c \in Callers :
          (/\ po[c].pc = "delivering"
           /\ po'[c].pc = "idle"
           /\ result'.op = po[c].op
           /\ result'.order_id = po[c].order_id
           /\ result'.success
           /\ result'.delivered) =>
              ~(/\ orders[po[c].order_id].status = "completed"
                /\ orders[po[c].order_id].delivery_status = "delivered")]_vars

(***************************************************************************)
(* The periodic sweep: progress and single flight                          *)
(***************************************************************************)
\* C33: under fair repetition of the sweep with its fixed max_orders, every
\* Pending order whose delivery would succeed is eventually processed, even
\* when max_orders older Pending orders fail delivery on every run
C33_SweepReachesEveryOrder ==
    \A o \in Deliverable :
        (orders[o].status = "pending") ~> (orders[o].status # "pending")

C35_SuccessIsFinal ==
    [][\A o \in TopupIds : topups[o] = "success" => topups'[o] = "success"]_vars

\* C36: a verified success notification whose well-formed order_id does not
\* start with 'TOPUP-' is handled in one step that changes no balance and
\* credits nothing; at most the row of that order_id changes, to 'success',
\* and no row is created
C36_OrderPaymentNoCredit ==
    [][\A t \in WebhookThreads, req \in EndpointRequests :
          (/\ req.json /\ req.valid /\ req.status = "success"
           /\ Len(req.order_id) >= 3
           /\ req.order_id[2] \in DOMAIN IntOf
           /\ req.order_id[1] # "TOPUP"
           /\ Receive(t, req)) =>
              /\ last' = Answer(req, 200, "true")
              /\ balance' = balance
              /\ credits' = credits
              /\ \A o \in WebhookIds \ {req.order_id} : topups'[o] = topups[o]
              /\ topups'[req.order_id] =
                    IF topups[req.order_id] = "none" THEN "none" ELSE "success"
              /\ ~Busy(t)']_vars

\* a success notification for an order payment has been answered while the
\* user's top-up rows are Pending: nothing was credited
C36_Witness ==
    /\ last.resp = 200
    /\ last.req.json /\ last.req.valid /\ last.req.status = "success"
    /\ last.req.order_id = <<"ORDER", "1", "t3">>
    /\ last.ret = "true"
    /\ \A o \in TopupIds : topups[o] = "pending"
    /\ \A o \in WebhookIds : credits[o] = 0
    /\ balance = balance0

CodeCounts == {1, DmCodeLimit, DmCodeLimit + 1}

DeliveryOutcomes == {"success", "failure"}

NextSmart ==
    \/ \E known \in BOOLEAN, codes \in CodeCounts, long \in BOOLEAN :
          SmartDelivery(known, codes, long)
    \/ \E outcome \in DeliveryOutcomes, rec \in RecordOutcomes :
          SmartDeliveryDm(outcome, rec)
    \/ \E outcome \in DeliveryOutcomes, rec \in RecordOutcomes :
          SmartDeliveryFile(outcome, rec)
    \/ \E outcome \in DeliveryOutcomes, rec \in RecordOutcomes :
          SmartDeliveryChannel(outcome, rec)

SpecSmart == InitRetry /\ [][NextSmart]_vars

\* the methods smart_delivery goes through for an order of so many codes
MethodOrder(codes) ==
    IF codes <= 10 THEN <<"dm", "file", "channel">> ELSE <<"file", "channel">>

\* C38: the methods a smart_delivery call has awaited are the first ones of
\* direct message (orders of at most 10 codes only), file, channel, in that
\* order; none follows one that succeeded; the call returns the result of
\* the last one awaited, and returns a failure only when all of them were
\* awaited and failed
C38_FixedMethodOrder ==
    LET order == MethodOrder(sd.codes)
        n == Len(sd.tried)
    IN /\ n <= Len(order)
       /\ \A i \in 1..n : sd.tried[i].stage = order[i]
       /\ \A i \in 1..n : sd.tried[i].success => (i = n /\ sd.returned)
       /\ sd.returned =>
             /\ n >= 1
             /\ sd.success = sd.tried[n].success
             /\ sd.method = sd.tried[n].method
             /\ ~sd.success =>
                   /\ n = Len(order)
                   /\ \A i \in 1..n : ~sd.tried[i].success
       /\ (sd.pc # "idle" /\ n >= 1) => ~sd.tried[n].success

\* a call for one code returned the channel delivery after the direct
\* message and the file had failed
C38_Witness ==
    /\ sd.returned /\ sd.success /\ sd.method = "channel"
    /\ sd.codes = 1
    /\ Len(sd.tried) = 3
    /\ ~sd.tried[1].success /\ ~sd.tried[2].success
    /\ dtable.success = 1

\* C39: a deliver_with_retry call with max_attempts = 0 invokes no delivery
\* method and returns a value, with success = false and attempts = 0; it
\* does not raise
C39_ZeroCapReturnsFailure ==
    [][(/\ dr.pc = "loop"
        /\ dr.max_attempts = 0
        /\ dr'.pc = "idle") =>
           /\ dr.invoked = 0
           /\ dresult'.returned = "value"
           /\ ~dresult'.success
           /\ dresult'.attempts = 0]_vars

====
